---- MODULE Spec2Model ----
(***************************************************************************)
(* Model of the persistence package: the DependencySpec /                  *)
(* NestedDependencySpec object graph (dependencies.py), the backend        *)
(* registry (model_io.py) and the ModelContainer directory protocol        *)
(* (models.py).                                                            *)
(*                                                                         *)
(* Python objects have identity: a spec node is an index into `nodes`, a   *)
(* metadata dict is an index into `metas`.  Dependency names are the       *)
(* numbers 1..MaxName, ordered as the strings "a" < "b" < ... they stand   *)
(* for.  A dict is the set of its <<key, value>> items.                    *)
(***************************************************************************)
EXTENDS Integers, Sequences, FiniteSets, TLC

VARIABLES
  nodes,   \* the spec objects, by identity
  metas,   \* the metadata dicts, by identity
  views,   \* history: <<n, v>> when leaf v was returned by nodes[n][key]
  result,  \* the outcome of the call in progress
  importers, exporters,  \* model_io's two module-level lists
  container,             \* the ModelContainer the caller holds, if any
  disk                   \* the files of the save directory

vars == <<nodes, metas, views, result, importers, exporters, container, disk>>
ioVars == <<importers, exporters, container, disk>>

\* ------------------------------------------------------------------ bounds
MaxName == 2
MaxNodes == 4
MaxBuilt == 3
MaxLen == 2
MaxKids == 2

Names == 1..MaxName
MetaKeys == {"unit"}
MetaVals == {"kg"}

\* ------------------------------------------------------- python primitives
Range(s) == {s[i] : i \in DOMAIN s}

SeqsUpTo(S, n) == UNION {[1..k -> S] : k \in 0..n}

Dicts == SUBSET (MetaKeys \X MetaVals)

DictKeys(d) == {p[1] : p \in d}

\* dict.update(other)
DictUpdate(d, other) == {p \in d : p[1] \notin DictKeys(other)} \cup other

RECURSIVE SortedSeq(_)
\* sorted(set_of_names)
SortedSeq(S) ==
  IF S = {} THEN <<>>
  ELSE LET m == CHOOSE x \in S : \A y \in S : x <= y
       IN <<m>> \o SortedSeq(S \ {m})

\* sorted(list): the list's elements in ascending order, repeats kept
RECURSIVE Sorted(_)
Sorted(s) ==
  IF s = <<>> THEN <<>>
  ELSE LET i == CHOOSE j \in DOMAIN s : \A k \in DOMAIN s : s[j] <= s[k]
       IN <<s[i]>> \o Sorted([k \in 1..(Len(s) - 1) |-> IF k < i THEN s[k] ELSE s[k + 1]])

\* len(set(xs)) == len(xs)
Unique(s) == Cardinality(Range(s)) = Len(s)

\* ------------------------------------------------------------ object graph
IsLeaf(h, n) == h[n].kind = "leaf"

RECURSIVE Dependencies(_, _), Chain(_, _)
\* DependencySpec.dependencies / NestedDependencySpec.dependencies
Dependencies(h, n) ==
  IF IsLeaf(h, n) THEN h[n].deps ELSE Chain(h, h[n].children)

\* itertools.chain(*(child.dependencies for child in children))
Chain(h, cs) ==
  IF cs = <<>> THEN <<>> ELSE Dependencies(h, Head(cs)) \o Chain(h, Tail(cs))

\* What the caller passes as `meta`: None, a dict literal, or a dict that
\* already exists (self.meta handed on by __getitem__ and __add__).
MNone == [tag |-> "none", lit |-> {}, ref |-> 0]
MLit(d) == [tag |-> "lit", lit |-> d, ref |-> 0]
MRef(i) == [tag |-> "ref", lit |-> {}, ref |-> i]

\* `meta or {}`: the object passed is kept only when it is truthy (non-empty)
MetaKept(ms, m) == m.tag = "ref" /\ ms[m.ref] # {}

\* self.meta = meta or {}; self.meta.update(kwargs): the dict heap afterwards
MetaHeap(ms, m, kwargs) ==
  IF MetaKept(ms, m) THEN [ms EXCEPT ![m.ref] = DictUpdate(@, kwargs)]
  ELSE Append(ms, DictUpdate(IF m.tag = "lit" THEN m.lit ELSE {}, kwargs))

\* ... and the identity of the dict the new node holds
MetaOf(ms, m) == IF MetaKept(ms, m) THEN m.ref ELSE Len(ms) + 1

\* DependencySpec.__init__ validation: "" when the arguments are accepted
LeafInitError(deps) ==
  IF Len(deps) = 0 THEN "AssertionError"
  ELSE IF ~Unique(deps) THEN "AssertionError"
  ELSE ""

LeafObject(ms, deps, m) ==
  [kind |-> "leaf", deps |-> Sorted(deps), children |-> <<>>, meta |-> MetaOf(ms, m)]

\* NestedDependencySpec.__init__ validation over the flattened dependencies
NestedInitError(h, children) ==
  IF Len(children) = 0 THEN "AssertionError"
  ELSE IF ~Unique(Chain(h, children)) THEN "ValueError"
  ELSE ""

NestedObject(ms, children, m) ==
  [kind |-> "nested", deps |-> <<>>, children |-> children, meta |-> MetaOf(ms, m)]

\* ------------------------------------------------------- last call's outcome
\* The call in progress and what it returned or raised; `pre` and `preKids`
\* are self's flattened dependencies and children when the call was made.
Outcome(op, err, self, other, ret, pre, preKids) ==
  [op |-> op, err |-> err, self |-> self, other |-> other, ret |-> ret,
   pre |-> pre, preKids |-> preKids, val |-> <<>>]

NoOperand == [t |-> "none", v |-> <<>>]
NoResult == Outcome("none", "", 0, NoOperand, 0, <<>>, <<>>)

PreOf(self) == IF self = 0 THEN <<>> ELSE Dependencies(nodes, self)
PreKidsOf(self) == IF self = 0 THEN <<>> ELSE nodes[self].children

\* the call raises: nothing is allocated, nothing is changed
Raise(op, err, self, other) ==
  /\ result' = Outcome(op, err, self, other, 0, PreOf(self), PreKidsOf(self))
  /\ UNCHANGED <<nodes, metas, views, ioVars>>

Ids == 1..Len(nodes)
Room(cap) == Len(nodes) < cap
Idle == result.op = "none"

\* operands of + and +=, and keys of []
StrArg(x) == [t |-> "str", v |-> <<x>>]
IntArg(i) == [t |-> "int", v |-> <<i>>]
ListArg(xs) == [t |-> "list", v |-> xs]
NodeArg(n) == [t |-> "spec", v |-> <<n>>]

\* ------------------------------------------------------------------ actions
\* DependencySpec(dependencies, meta, **kwargs)
NewLeaf(deps, m, kwargs) ==
  /\ Idle
  /\ UNCHANGED ioVars
  /\ IF LeafInitError(deps) # ""
     THEN Raise("leaf_init", LeafInitError(deps), 0, NoOperand)
     ELSE /\ nodes' = Append(nodes, LeafObject(metas, deps, m))
          /\ metas' = MetaHeap(metas, m, kwargs)
          /\ result' = Outcome("leaf_init", "", 0, NoOperand, Len(nodes) + 1, <<>>, <<>>)
          /\ UNCHANGED views

\* NestedDependencySpec(children, meta, **kwargs)
NewNested(children, m, kwargs) ==
  /\ Idle
  /\ UNCHANGED ioVars
  /\ IF NestedInitError(nodes, children) # ""
     THEN Raise("nested_init", NestedInitError(nodes, children), 0, NoOperand)
     ELSE /\ nodes' = Append(nodes, NestedObject(metas, children, m))
          /\ metas' = MetaHeap(metas, m, kwargs)
          /\ result' = Outcome("nested_init", "", 0, NoOperand, Len(nodes) + 1, <<>>, <<>>)
          /\ UNCHANGED views

\* isinstance(other, DependencySpec)
IsDependencySpec(h, o) == o.t = "spec" /\ IsLeaf(h, o.v[1])

\* DependencySpec.__add__/__iadd__: the operand after the isinstance chain,
\* as the names it iterates over; "TypeError" when the chain rejects it
AddOperandError(h, o) ==
  IF o.t = "str" THEN ""
  ELSE IF o.t = "int" THEN ""
  ELSE IF ~IsDependencySpec(h, o) THEN "TypeError"
  ELSE ""

AddOperandNames(h, o) ==
  IF o.t = "str" THEN Range(o.v)
  ELSE IF o.t = "int" THEN {}
  ELSE Range(Dependencies(h, o.v[1]))

\* sorted(set.union(set(self), set(other)))
AddUnion(h, a, o) == SortedSeq(Range(Dependencies(h, a)) \cup AddOperandNames(h, o))

\* DependencySpec.__add__
LeafAdd(a, o) ==
  /\ Idle
  /\ UNCHANGED ioVars
  /\ IsLeaf(nodes, a)
  /\ IF AddOperandError(nodes, o) # ""
     THEN Raise("leaf_add", AddOperandError(nodes, o), a, o)
     ELSE /\ nodes' = Append(nodes, LeafObject(metas, AddUnion(nodes, a, o), MRef(nodes[a].meta)))
          /\ metas' = MetaHeap(metas, MRef(nodes[a].meta), {})
          /\ result' = Outcome("leaf_add", "", a, o, Len(nodes) + 1,
                               PreOf(a), PreKidsOf(a))
          /\ UNCHANGED views

\* DependencySpec.__iadd__: `dependencies` is a property without a setter,
\* so the assignment at the end raises
LeafIAdd(a, o) ==
  /\ Idle
  /\ IsLeaf(nodes, a)
  /\ IF AddOperandError(nodes, o) # ""
     THEN Raise("leaf_iadd", AddOperandError(nodes, o), a, o)
     ELSE Raise("leaf_iadd", "AttributeError", a, o)

\* NestedDependencySpec.__add__: anything but a DependencySpec is refused with
\* TypeError, and for a DependencySpec `self.children + other` adds it to a
\* list, which raises TypeError as well
NestedAdd(c, o) ==
  /\ Idle
  /\ ~IsLeaf(nodes, c)
  /\ Raise("nested_add", "TypeError", c, o)

\* mutant: only the composite's own leaf children are compared with the leaf
OverlapsDirectChildren(h, c, l) ==
  \E i \in DOMAIN h[c].children :
    /\ IsLeaf(h, h[c].children[i])
    /\ Range(h[h[c].children[i]].deps) \cap Range(Dependencies(h, l)) # {}

\* not set(self.dependencies).isdisjoint(other.dependencies)
Overlaps(h, c, l) == Range(Dependencies(h, c)) \cap Range(Dependencies(h, l)) # {}

\* NestedDependencySpec.__iadd__
NestedIAdd(c, o) ==
  /\ Idle
  /\ UNCHANGED ioVars
  /\ ~IsLeaf(nodes, c)
  /\ IF ~IsDependencySpec(nodes, o)
     THEN Raise("nested_iadd", "TypeError", c, o)
     ELSE IF Overlaps(nodes, c, o.v[1])
     THEN Raise("nested_iadd", "ValueError", c, o)
     ELSE /\ nodes' = [nodes EXCEPT ![c].children = Append(@, o.v[1])]
          /\ UNCHANGED <<metas, views>>
          /\ result' = Outcome("nested_iadd", "", c, o, 0, PreOf(c), PreKidsOf(c))

\* self.dependencies[attr] for an int: None when it raises IndexError
PyIndex(xs, i) ==
  IF 0 <= i /\ i < Len(xs) THEN i + 1
  ELSE IF i < 0 /\ -i <= Len(xs) THEN Len(xs) + i + 1
  ELSE 0

\* mutant: a sequence key is checked against the dependencies by its first
\* name only
GetItemErrorFirstOnly(h, n, key) ==
  IF key.t = "str"
  THEN IF key.v[1] \in Range(Dependencies(h, n)) THEN "" ELSE "ValueError"
  ELSE IF key.t = "int"
  THEN IF PyIndex(Dependencies(h, n), key.v[1]) = 0 THEN "IndexError" ELSE ""
  ELSE IF key.v # <<>> /\ key.v[1] \notin Range(Dependencies(h, n))
  THEN "ValueError"
  ELSE LeafInitError(key.v)

\* DependencySpecType.__getitem__: the error it raises ("" for none) ...
GetItemError(h, n, key) ==
  IF key.t = "str"
  THEN IF key.v[1] \in Range(Dependencies(h, n)) THEN "" ELSE "ValueError"
  ELSE IF key.t = "int"
  THEN IF PyIndex(Dependencies(h, n), key.v[1]) = 0 THEN "IndexError" ELSE ""
  ELSE IF \E i \in DOMAIN key.v : key.v[i] \notin Range(Dependencies(h, n))
  THEN "ValueError"
  ELSE LeafInitError(key.v)

\* ... and the dependencies it passes to DependencySpec(...)
GetItemNames(h, n, key) ==
  IF key.t = "str" THEN key.v
  ELSE IF key.t = "int" THEN <<Dependencies(h, n)[PyIndex(Dependencies(h, n), key.v[1])]>>
  ELSE key.v

\* DependencySpecType.__getitem__
GetItem(n, key) ==
  /\ Idle
  /\ UNCHANGED ioVars
  /\ IF GetItemError(nodes, n, key) # ""
     THEN Raise("getitem", GetItemError(nodes, n, key), n, key)
     ELSE /\ nodes' = Append(nodes, LeafObject(metas, GetItemNames(nodes, n, key),
                                               MRef(nodes[n].meta)))
          /\ metas' = MetaHeap(metas, MRef(nodes[n].meta), {})
          /\ views' = views \cup {<<n, Len(nodes) + 1>>}
          /\ result' = Outcome("getitem", "", n, key, Len(nodes) + 1,
                               PreOf(n), PreKidsOf(n))

\* node.meta[k] = v by a holder of the node
MetaWrite(n, k, v) ==
  /\ Idle
  /\ UNCHANGED ioVars
  /\ metas' = [metas EXCEPT ![nodes[n].meta] = DictUpdate(@, {<<k, v>>})]
  /\ UNCHANGED <<nodes, views, result>>

\* ----------------------------------------------------- to_dict / from_dict
\* A JSON-compatible value: a dict (the keys it carries, and their values), a
\* list (its items) or anything else.
DictValue(keys, dependencies, children, meta) ==
  [type |-> "dict", keys |-> keys, dependencies |-> dependencies,
   children |-> children, meta |-> meta]
ListValue(items) ==
  [type |-> "list", keys |-> {}, dependencies |-> <<>>, children |-> items, meta |-> {}]
OtherValue ==
  [type |-> "other", keys |-> {}, dependencies |-> <<>>, children |-> <<>>, meta |-> {}]

\* A tree of spec objects as a value: what a call built and returned
LeafTree(deps, meta) ==
  [kind |-> "leaf", deps |-> deps, children |-> <<>>, meta |-> meta, err |-> ""]
NestedTree(children, meta) ==
  [kind |-> "nested", deps |-> <<>>, children |-> children, meta |-> meta, err |-> ""]
ErrorTree(err) ==
  [kind |-> "error", deps |-> <<>>, children |-> <<>>, meta |-> {}, err |-> err]

RECURSIVE TreeDependencies(_)
TreeDependencies(t) ==
  IF t.kind = "leaf" THEN t.deps
  ELSE IF t.children = <<>> THEN <<>>
  ELSE TreeDependencies(Head(t.children))
         \o TreeDependencies([t EXCEPT !.children = Tail(t.children)])

RECURSIVE ToDict(_, _, _)
\* DependencySpec.to_dict / NestedDependencySpec.to_dict
ToDict(h, ms, n) ==
  IF IsLeaf(h, n)
  THEN DictValue({"dependencies", "meta"}, h[n].deps, <<>>, ms[h[n].meta])
  ELSE DictValue({"children", "meta"}, <<>>,
                 [i \in DOMAIN h[n].children |-> ToDict(h, ms, h[n].children[i])],
                 ms[h[n].meta])

\* mutant: any dict with a "dependencies" key is taken for a leaf
LeafShapedByKey(d) == "dependencies" \in d.keys

\* dictionary.keys() <= {"dependencies", "meta"}
LeafShaped(d) == d.keys \subseteq {"dependencies", "meta"}

\* dictionary.keys() <= {"children", "meta"}
NestedShaped(d) == d.keys \subseteq {"children", "meta"}

\* the first error among the children built so far, "" when there is none
FirstError(ts) ==
  IF \E i \in DOMAIN ts : ts[i].kind = "error"
  THEN ts[CHOOSE i \in DOMAIN ts :
            ts[i].kind = "error" /\ \A j \in 1..(i - 1) : ts[j].kind # "error"].err
  ELSE ""

\* NestedDependencySpec(children=..., meta=...) over freshly built children
BuildNested(ts, meta) ==
  IF FirstError(ts) # "" THEN ErrorTree(FirstError(ts))
  ELSE IF Len(ts) = 0 THEN ErrorTree("AssertionError")
  ELSE IF ~Unique(TreeDependencies(NestedTree(ts, meta))) THEN ErrorTree("ValueError")
  ELSE NestedTree(ts, meta)

\* mutant: the leaf is built without the dict's "meta"
BuildLeafDropsMeta(d) ==
  IF "dependencies" \notin d.keys THEN ErrorTree("TypeError")
  ELSE IF LeafInitError(d.dependencies) # "" THEN ErrorTree(LeafInitError(d.dependencies))
  ELSE LeafTree(Sorted(d.dependencies), {})

\* DependencySpec(**dictionary)
BuildLeaf(d) ==
  IF "dependencies" \notin d.keys THEN ErrorTree("TypeError")
  ELSE IF LeafInitError(d.dependencies) # "" THEN ErrorTree(LeafInitError(d.dependencies))
  ELSE LeafTree(Sorted(d.dependencies), IF "meta" \in d.keys THEN d.meta ELSE {})

RECURSIVE FromDict(_)
\* DependencySpecType.from_dict
FromDict(d) ==
  IF d.type = "dict"
  THEN IF LeafShaped(d) THEN BuildLeaf(d)
       ELSE IF NestedShaped(d)
       THEN BuildNested([i \in DOMAIN d.children |-> FromDict(d.children[i])],
                        IF "meta" \in d.keys THEN d.meta ELSE {})
       ELSE ErrorTree("ValueError")
  ELSE IF d.type = "list"
  THEN BuildNested([i \in DOMAIN d.children |-> FromDict(d.children[i])], {})
  ELSE ErrorTree("TypeError")

\* DependencySpecType.from_dict(dictionary), called on a value
FromDictCall(d) ==
  /\ Idle
  /\ result' = [Outcome("from_dict", FromDict(d).err, 0, [t |-> "dict", v |-> <<d>>],
                        0, <<>>, <<>>) EXCEPT !.val = <<FromDict(d)>>]
  /\ UNCHANGED <<nodes, metas, views, ioVars>>

\* DependencySpecType.from_dict(node.to_dict())
RoundTrip(n) ==
  /\ Idle
  /\ result' = [Outcome("roundtrip", FromDict(ToDict(nodes, metas, n)).err, n,
                        [t |-> "dict", v |-> <<ToDict(nodes, metas, n)>>],
                        0, PreOf(n), PreKidsOf(n))
                  EXCEPT !.val = <<FromDict(ToDict(nodes, metas, n))>>]
  /\ UNCHANGED <<nodes, metas, views, ioVars>>

\* --------------------------------------------------------------- model_io
\* the module-level registration, given what get_keras() and get_joblib() found:
\* the save and the load function of each library both go to `exporters`
RegisteredImporters(keras_available, joblib_available) == <<>>

RegisteredExporters(keras_available, joblib_available) ==
  (IF keras_available THEN <<"save_keras", "load_keras">> ELSE <<>>)
    \o (IF joblib_available THEN <<"save_pickle", "load_pickle">> ELSE <<>>)

\* The model objects: a scikit-style estimator, a keras model, an object
\* without predict and one without fit.  None is <<>>, an object x is <<x>>.
Models == {"estimator", "keras_model", "fit_only", "predict_only"}
HasFit(model) == model # <<>> /\ model[1] # "predict_only"
HasPredict(model) == model # <<>> /\ model[1] # "fit_only"

\* export_func(model, path): the file it leaves, raising (the file stays as
\* it was) when called on a model it cannot save or with the wrong arguments
ExportFile(f, model, file) ==
  IF f = "save_keras"
  THEN IF model = <<"keras_model">> THEN <<[format |-> "tf", model |-> model[1]]>> ELSE file
  ELSE IF f = "save_pickle" THEN <<[format |-> "joblib", model |-> model[1]]>>
  ELSE file

ExportRaises(f, model) ==
  IF f = "save_keras" THEN model # <<"keras_model">>
  ELSE f # "save_pickle"

RECURSIVE ModelIOSave(_, _, _, _)
\* model_io.save: every exporter is tried; [file, success]
ModelIOSave(exps, model, file, success) ==
  IF exps = <<>> THEN [file |-> file, success |-> success]
  ELSE ModelIOSave(Tail(exps), model, ExportFile(Head(exps), model, file),
                   success \/ ~ExportRaises(Head(exps), model))

\* import_func(path): the model it returns, <<>> when it raises or returns None
ImportResult(f, file) ==
  IF file = <<>> THEN <<>>
  ELSE IF f = "load_keras" /\ file[1].format = "tf" THEN <<file[1].model>>
  ELSE IF f = "load_pickle" /\ file[1].format = "joblib" THEN <<file[1].model>>
  ELSE <<>>

RECURSIVE ModelIOLoad(_, _)
\* model_io.load: the first importer's model; None when the list runs out
ModelIOLoad(imps, file) ==
  IF imps = <<>> THEN <<>>
  ELSE IF ImportResult(Head(imps), file) # <<>> THEN ImportResult(Head(imps), file)
  ELSE ModelIOLoad(Tail(imps), file)

\* ----------------------------------------------------------- ModelContainer
MODEL_FILENAME == "model"
X_SPEC_FILENAME == "X_spec.json"
Y_SPEC_FILENAME == "y_spec.json"
EXTRAS_FILENAME == "extras.json"
FileNames == <<MODEL_FILENAME, X_SPEC_FILENAME, Y_SPEC_FILENAME, EXTRAS_FILENAME>>

NoFiles == [f \in Range(FileNames) |-> <<>>]

\* json.dumps / json.loads, on the values written here: lists of strings and
\* dicts from strings to strings come back as they were
JsonDumps(v) == [text |-> v]
JsonLoads(t) == t.text

\* eval_metrics as passed: None, a dict, or a non-empty value that is no dict
NoMetrics == [tag |-> "none", items |-> {}]
MetricsDict(d) == [tag |-> "dict", items |-> d]
MetricsList == [tag |-> "list", items |-> {}]
MetricDicts == SUBSET ({"acc"} \X {"0.9"})

\* ModelContainer.__init__: the assertion that fails ("" for none)
ContainerInitError(model, eval_metrics) ==
  IF ~HasPredict(model) THEN "model must implement 'predict'"
  ELSE IF ~HasFit(model) THEN "model must implement 'fit'"
  ELSE IF eval_metrics.tag = "list"
  THEN "eval_metrics (if provided) must be a dict of {metric: value} pairs"
  ELSE ""

ContainerObject(model, X_spec, y_spec, dt, eval_metrics) ==
  [model |-> model, X_spec |-> X_spec, y_spec |-> y_spec, dt |-> dt,
   eval_metrics |-> eval_metrics.items]

\* a spec object as the container holds it: the object graph it lives in and
\* its place there
SpecObject(h, ms, n) == [h |-> h, ms |-> ms, n |-> n]

\* DependencySpec(deps), for the container's X_spec and y_spec
LeafSpec(deps) == SpecObject(<<LeafObject(<<>>, deps, MNone)>>, MetaHeap(<<>>, MNone, {}), 1)

\* ModelContainer(model, X_spec, y_spec, dt, eval_metrics)
NewContainer(model, x, y, eval_metrics) ==
  /\ Idle
  /\ IF ContainerInitError(model, eval_metrics) # ""
     THEN /\ result' = Outcome("container_init", "AssertionError", 0,
                               [t |-> "message", v |-> <<ContainerInitError(model, eval_metrics)>>],
                               0, <<>>, <<>>)
          /\ UNCHANGED container
     ELSE /\ result' = Outcome("container_init", "", 0, NoOperand, 0, <<>>, <<>>)
          /\ container' = <<ContainerObject(model, <<x>>, <<y>>, 0, eval_metrics)>>
  /\ UNCHANGED <<nodes, metas, views, importers, exporters, disk>>

\* ModelContainer.save: the directory afterwards
SavedFiles(c, d) ==
  [f \in Range(FileNames) |->
     IF f = MODEL_FILENAME THEN ModelIOSave(exporters, c.model, d[f], FALSE).file
     ELSE IF f = X_SPEC_FILENAME
     THEN <<JsonDumps(ToDict(c.X_spec[1].h, c.X_spec[1].ms, c.X_spec[1].n))>>
     ELSE IF f = Y_SPEC_FILENAME
     THEN <<JsonDumps(ToDict(c.y_spec[1].h, c.y_spec[1].ms, c.y_spec[1].n))>>
     ELSE <<JsonDumps([eval_metrics |-> c.eval_metrics, dt |-> c.dt,
                       save_timestamp |-> "today"])>>]

\* ModelContainer.save
Save ==
  /\ Idle
  /\ container # <<>>
  /\ disk' = SavedFiles(container[1], disk)
  /\ result' = Outcome("save", "", 0, NoOperand, 0, <<>>, <<>>)
  /\ UNCHANGED <<nodes, metas, views, importers, exporters, container>>

\* a file of the directory is deleted from outside
RemoveFile(f) ==
  /\ Idle
  /\ disk[f] # <<>>
  /\ disk' = [disk EXCEPT ![f] = <<>>]
  /\ UNCHANGED <<nodes, metas, views, result, importers, exporters, container>>

\* mutant: extras.json is not among the files checked
MissingFileButExtras(d) ==
  IF \E i \in 1..3 : d[FileNames[i]] = <<>>
  THEN FileNames[CHOOSE i \in 1..3 :
                   d[FileNames[i]] = <<>> /\ \A j \in 1..(i - 1) : d[FileNames[j]] # <<>>]
  ELSE ""

\* the four `assert os.path.isfile(...)`: the file the first failing one
\* names, "" when all four exist
MissingFile(d) ==
  IF \E i \in DOMAIN FileNames : d[FileNames[i]] = <<>>
  THEN FileNames[CHOOSE i \in DOMAIN FileNames :
                   d[FileNames[i]] = <<>> /\ \A j \in 1..(i - 1) : d[FileNames[j]] # <<>>]
  ELSE ""

\* ModelContainer.load_spec: the error it raises ("" for none); it returns None
LoadSpecError(file) ==
  IF file = <<>> THEN "FileNotFoundError" ELSE FromDict(JsonLoads(file[1])).err

\* what a call of ModelContainer.load did: the error raised and the file or
\* message it names, the steps taken after the checks, the container returned
Loaded(err, named, steps, c) == [err |-> err, named |-> named, steps |-> steps, container |-> c]

\* ModelContainer.load
LoadResult(imps, d) ==
  LET model == ModelIOLoad(imps, d[MODEL_FILENAME])
      s1 == <<"model_io.load">>
      s2 == s1 \o <<"open X_spec.json">>
      s3 == s2 \o <<"open y_spec.json">>
      s4 == s3 \o <<"open extras.json">>
      extras == JsonLoads(d[EXTRAS_FILENAME][1])
  IN IF MissingFile(d) # "" THEN Loaded("AssertionError", MissingFile(d), <<>>, <<>>)
     ELSE IF LoadSpecError(d[X_SPEC_FILENAME]) # ""
     THEN Loaded(LoadSpecError(d[X_SPEC_FILENAME]), X_SPEC_FILENAME, s2, <<>>)
     ELSE IF LoadSpecError(d[Y_SPEC_FILENAME]) # ""
     THEN Loaded(LoadSpecError(d[Y_SPEC_FILENAME]), Y_SPEC_FILENAME, s3, <<>>)
     ELSE IF d[EXTRAS_FILENAME] = <<>>
     THEN Loaded("FileNotFoundError", EXTRAS_FILENAME, s4, <<>>)
     ELSE IF ContainerInitError(model, MetricsDict(extras.eval_metrics)) # ""
     THEN Loaded("AssertionError",
                 ContainerInitError(model, MetricsDict(extras.eval_metrics)), s4, <<>>)
     ELSE Loaded("", "", s4,
                 <<ContainerObject(model, <<>>, <<>>, extras.dt,
                                   MetricsDict(extras.eval_metrics))>>)

\* ModelContainer.load(path)
Load ==
  /\ Idle
  /\ result' = [Outcome("load", LoadResult(importers, disk).err, 0,
                        [t |-> "named", v |-> <<LoadResult(importers, disk).named>>],
                        0, <<>>, <<>>)
                  EXCEPT !.val = <<LoadResult(importers, disk)>>]
  /\ UNCHANGED <<nodes, metas, views, ioVars>>

\* model_io.load(path) on the directory's model file
BackendLoad ==
  /\ Idle
  /\ result' = [Outcome("model_io.load", "", 0, NoOperand, 0, <<>>, <<>>)
                  EXCEPT !.val = ModelIOLoad(importers, disk[MODEL_FILENAME])]
  /\ UNCHANGED <<nodes, metas, views, ioVars>>

\* the caller has taken the outcome of the call
Return ==
  /\ ~Idle
  /\ result' = NoResult
  /\ UNCHANGED <<nodes, metas, views, ioVars>>

\* the caller lets go of the leaf an indexing returned: the object is freed,
\* and its dict with it unless another node holds the same dict
Drop ==
  /\ UNCHANGED ioVars
  /\ result.op = "getitem"
  /\ result.ret # 0
  /\ nodes' = SubSeq(nodes, 1, Len(nodes) - 1)
  /\ metas' = IF \E n \in 1..(Len(nodes) - 1) : nodes[n].meta = nodes[Len(nodes)].meta
              THEN metas
              ELSE SubSeq(metas, 1, Len(metas) - 1)
  /\ views' = {p \in views : p[2] # Len(nodes)}
  /\ result' = NoResult

NoObjects ==
  /\ nodes = <<>>
  /\ metas = <<>>
  /\ views = {}
  /\ result = NoResult
  /\ container = <<>>
  /\ disk = NoFiles

\* dependencies.py alone: model_io is not imported
Init ==
  /\ NoObjects
  /\ importers = <<>>
  /\ exporters = <<>>

\* models.py: model_io has registered what the installed libraries allow
InitIO ==
  /\ NoObjects
  /\ \E keras_available, joblib_available \in BOOLEAN :
       /\ importers = RegisteredImporters(keras_available, joblib_available)
       /\ exporters = RegisteredExporters(keras_available, joblib_available)

NameLists == SeqsUpTo(Names, MaxLen)
ChildLists == SeqsUpTo(Ids, MaxKids)
AddOperands == {StrArg(x) : x \in Names} \cup {IntArg(0)}
               \cup {ListArg(xs) : xs \in NameLists} \cup {NodeArg(n) : n \in Ids}
ItemKeys == {StrArg(x) : x \in Names} \cup {IntArg(i) : i \in -MaxLen..MaxLen}
            \cup {ListArg(xs) : xs \in NameLists}
\* how a constructor is given metadata: not at all, as `meta`, or as keywords
MetaCalls == {<<MNone, {}>>} \cup {<<MLit(d), {}>> : d \in Dicts}
             \cup {<<MNone, d>> : d \in Dicts \ {{}}}

\* Trees: construction, merges and appends on up to MaxNodes objects
NextTree ==
  \/ Idle /\ Room(MaxNodes) /\ \E deps \in NameLists : NewLeaf(deps, MNone, {})
  \/ Idle /\ Room(MaxNodes) /\ \E cs \in ChildLists : NewNested(cs, MNone, {})
  \/ Idle /\ Room(MaxNodes) /\ \E a \in Ids, o \in AddOperands : LeafAdd(a, o)
  \/ Idle /\ \E a \in Ids, o \in AddOperands : LeafIAdd(a, o)
  \/ Idle /\ \E c, n \in Ids : NestedAdd(c, NodeArg(n))
  \/ Idle /\ \E c, n \in Ids : NestedIAdd(c, NodeArg(n))
  \/ Return

SpecTree == Init /\ [][NextTree]_vars

\* Appends: construction and NestedDependencySpec.__iadd__
NextAppend ==
  \/ Idle /\ Room(MaxBuilt) /\ \E deps \in NameLists : NewLeaf(deps, MNone, {})
  \/ Idle /\ Room(MaxBuilt) /\ \E cs \in ChildLists : NewNested(cs, MNone, {})
  \/ Idle /\ \E c, n \in Ids : NestedIAdd(c, NodeArg(n))
  \/ Return

SpecAppend == Init /\ [][NextAppend]_vars

\* Views: indexing, leaf merges and metadata writes
NextView ==
  \/ Idle /\ Room(MaxBuilt) /\ \E deps \in NameLists, mk \in MetaCalls :
       NewLeaf(deps, mk[1], mk[2])
  \/ Idle /\ Room(MaxBuilt) /\ \E cs \in ChildLists, mk \in MetaCalls :
       NewNested(cs, mk[1], mk[2])
  \/ Idle /\ Room(MaxNodes) /\ \E n \in Ids, key \in ItemKeys : GetItem(n, key)
  \/ Idle /\ Room(MaxNodes) /\ \E a \in Ids, o \in AddOperands : LeafAdd(a, o)
  \/ Idle /\ \E n \in Ids, k \in MetaKeys, v \in MetaVals : MetaWrite(n, k, v)
  \/ Return

SpecView == Init /\ [][NextView]_vars

\* Indexing: construction and __getitem__, the returned leaf being let go
NextIndex ==
  \/ Idle /\ Room(MaxBuilt) /\ \E deps \in NameLists : NewLeaf(deps, MNone, {})
  \/ Idle /\ Room(MaxBuilt) /\ \E cs \in ChildLists : NewNested(cs, MNone, {})
  \/ Idle /\ \E n \in Ids, key \in ItemKeys : GetItem(n, key)
  \/ Drop
  \/ ~(result.op = "getitem" /\ result.ret # 0) /\ Return

SpecIndex == Init /\ [][NextIndex]_vars

\* Round trips: construction with metadata, then from_dict(to_dict(node))
NextRoundTrip ==
  \/ Idle /\ Room(MaxBuilt) /\ \E deps \in NameLists, mk \in MetaCalls :
       NewLeaf(deps, mk[1], mk[2])
  \/ Idle /\ Room(MaxBuilt) /\ \E cs \in ChildLists, mk \in MetaCalls :
       NewNested(cs, mk[1], mk[2])
  \/ Idle /\ \E n \in Ids : RoundTrip(n)
  \/ Return

SpecRoundTrip == Init /\ [][NextRoundTrip]_vars

\* The values from_dict is called on: dicts carrying any of the keys
\* "dependencies", "children", "meta" and a foreign one, lists, and other
\* values, nested to depth two.
KeySets == SUBSET {"dependencies", "children", "meta", "extra"}
DepsFor(ks, choices) == IF "dependencies" \in ks THEN choices \ {<<>>} ELSE {<<>>}
MetaFor(ks) == IF "meta" \in ks THEN MetaKeys \X MetaVals ELSE {}
FlatValues ==
  UNION {{DictValue(ks, deps, <<>>, MetaFor(ks)) : deps \in DepsFor(ks, NameLists)} :
           ks \in KeySets}
  \cup {ListValue(<<>>), OtherValue}
ChildValues ==
  UNION {{DictValue(ks, deps, <<>>, {}) : deps \in DepsFor(ks, {<<x>> : x \in Names})} :
           ks \in SUBSET {"dependencies", "children"}}
  \cup {ListValue(<<DictValue({"dependencies"}, <<1>>, <<>>, {})>>), OtherValue}
DeepValues ==
  UNION {{DictValue(ks \cup {"children"}, deps, cs, MetaFor(ks)) :
            deps \in DepsFor(ks, {<<1>>}), cs \in SeqsUpTo(ChildValues, MaxKids) \ {<<>>}} :
           ks \in SUBSET {"dependencies", "meta"}}
  \cup {ListValue(cs) : cs \in SeqsUpTo(ChildValues, MaxKids) \ {<<>>}}
Values == FlatValues \cup DeepValues

NextFromDict ==
  \/ Idle /\ \E d \in Values : FromDictCall(d)
  \/ Return

SpecFromDict == Init /\ [][NextFromDict]_vars

LeafLists == {xs \in NameLists : LeafInitError(xs) = ""}
MetricsArgs == {NoMetrics, MetricsList} \cup {MetricsDict(d) : d \in MetricDicts}

\* Containers: one container over leaf specs, save, load, deleted files
NextIO ==
  \/ Idle /\ container = <<>>
       /\ \E model \in {<<>>} \cup {<<x>> : x \in Models}, xs, ys \in LeafLists,
              em \in MetricsArgs :
            NewContainer(model, LeafSpec(xs), LeafSpec(ys), em)
  \/ Save
  \/ \E f \in Range(FileNames) : RemoveFile(f)
  \/ Load
  \/ BackendLoad
  \/ Return

SpecIO == InitIO /\ [][NextIO]_vars

\* ------------------------------------------------------------------ claims
\* C1: every spec object that exists has flattened dependencies without a
\* repeated name, whatever constructions, merges and appends came before.
GlobalUniqueness == \A n \in Ids : Unique(Dependencies(nodes, n))

KeyWithin(key, deps) == Range(key.v) \subseteq Range(deps)

\* C7 as stated: n[name] is the singleton leaf of a name of n and a not-found
\* error otherwise; n[i] is the singleton leaf of the name at sorted position i;
\* n[names] is the leaf of exactly those names when all are in n, and fails
\* when one is not.
IndexingAsStated ==
  result.op = "getitem" =>
    LET deps == result.pre
        key == result.other
        got == nodes[result.ret].deps
    IN CASE key.t = "str" ->
              IF KeyWithin(key, deps)
              THEN result.err = "" /\ got = key.v
              ELSE result.err = "ValueError"
         [] key.t = "int" ->
              (0 <= key.v[1] /\ key.v[1] < Len(deps)) =>
                 (result.err = "" /\ got = <<Sorted(deps)[key.v[1] + 1]>>)
         [] OTHER ->
              IF KeyWithin(key, deps)
              THEN result.err = "" /\ Range(got) = Range(key.v)
              ELSE result.err # ""

\* C7 amended: n[i] is the singleton leaf of the name at position i of
\* n.dependencies (Python indexing, -len <= i < len; IndexError outside), which
\* is the sorted position for a leaf and the position in child order for a
\* composite; n[names] is the leaf of exactly those names when the sequence is
\* not empty, repeats no name and names only dependencies of n, and fails
\* otherwise.  n[name] is as stated.
IndexingAmended ==
  result.op = "getitem" =>
    LET deps == result.pre
        key == result.other
        got == nodes[result.ret].deps
    IN CASE key.t = "str" ->
              IF KeyWithin(key, deps)
              THEN result.err = "" /\ got = key.v
              ELSE result.err = "ValueError"
         [] key.t = "int" ->
              IF -Len(deps) <= key.v[1] /\ key.v[1] < Len(deps)
              THEN result.err = "" /\ got = <<deps[(key.v[1] % Len(deps)) + 1]>>
              ELSE result.err = "IndexError"
         [] OTHER ->
              IF KeyWithin(key, deps) /\ key.v # <<>> /\ Unique(key.v)
              THEN /\ result.err = ""
                   /\ Range(got) = Range(key.v)
                   /\ Len(got) = Len(key.v)
              ELSE result.err \in {"ValueError", "AssertionError"}

\* C7 witness: a composite whose child order is not the sorted order was
\* indexed by an integer and returned a leaf
IndexedComposite ==
  /\ result.op = "getitem"
  /\ result.err = ""
  /\ result.other.t = "int"
  /\ ~IsLeaf(nodes, result.self)
  /\ result.pre # Sorted(result.pre)

\* C8: a leaf obtained by indexing holds the metadata mapping of the node it
\* came from, so each of the two shows what is written through the other.
ViewSeesWrites ==
  \A p \in views : metas[nodes[p[2]].meta] = metas[nodes[p[1]].meta]

\* C3: a + b for a leaf a and a name, a sequence of names or a leaf b returns
\* a new leaf with the sorted union of the names and a's metadata, and leaves
\* the dependencies of a and b as they were.
MergeUnion ==
  (/\ result.op = "leaf_add"
   /\ \/ result.other.t \in {"str", "list"}
      \/ IsDependencySpec(nodes, result.other)) =>
    LET a == result.self
        b == result.other
        names == IF b.t = "spec" THEN Range(nodes[b.v[1]].deps) ELSE Range(b.v)
    IN /\ result.err = ""
       /\ result.ret \notin {0, a}
       /\ nodes[result.ret].deps = SortedSeq(Range(result.pre) \cup names)
       /\ metas[nodes[result.ret].meta] = metas[nodes[a].meta]
       /\ nodes[a].deps = result.pre
RECURSIVE TreeOf(_, _, _)
\* the tree under node n, read off the objects: kinds, names, metadata
TreeOf(h, ms, n) ==
  IF IsLeaf(h, n) THEN LeafTree(h[n].deps, ms[h[n].meta])
  ELSE NestedTree([i \in DOMAIN h[n].children |-> TreeOf(h, ms, h[n].children[i])],
                  ms[h[n].meta])

\* C2: from_dict(to_dict(node)) is a tree of the same shape as node's, with
\* the same flattened dependencies and the same metadata at every node.
RoundTripPreserves ==
  result.op = "roundtrip" =>
    /\ result.err = ""
    /\ TreeDependencies(result.val[1]) = Dependencies(nodes, result.self)
    /\ result.val[1] = TreeOf(nodes, metas, result.self)

\* C2 witness: a composite with metadata, over a leaf with metadata, went
\* through the round trip
RoundTripOfComposite ==
  /\ result.op = "roundtrip"
  /\ ~IsLeaf(nodes, result.self)
  /\ metas[nodes[result.self].meta] # {}
  /\ \E i \in DOMAIN nodes[result.self].children :
       /\ IsLeaf(nodes, nodes[result.self].children[i])
       /\ metas[nodes[nodes[result.self].children[i]].meta] # {}

\* the two discriminant keys a dict carries
Discriminants(d) == d.keys \cap {"dependencies", "children"}

RECURSIVE EveryNodeCarriesOne(_)
\* every node value of d is a dict carrying exactly one of the two keys
EveryNodeCarriesOne(d) ==
  /\ d.type = "dict"
  /\ Cardinality(Discriminants(d)) = 1
  /\ \A i \in DOMAIN d.children : EveryNodeCarriesOne(d.children[i])

RECURSIVE SomeNodeCarriesBothOrNeither(_)
\* some node value of d is a dict carrying both keys, or neither
SomeNodeCarriesBothOrNeither(d) ==
  \/ d.type = "dict" /\ Cardinality(Discriminants(d)) # 1
  \/ \E i \in DOMAIN d.children : SomeNodeCarriesBothOrNeither(d.children[i])

\* C9 as stated: from_dict accepts, at every node, only a value carrying
\* "dependencies" or a value carrying "children"; a node value with both keys
\* or with neither makes it fail.
ShapeAsStated ==
  result.op = "from_dict" =>
    (~EveryNodeCarriesOne(result.other.v[1]) => result.err # "")

\* C9 amended: from_dict accepts, at every node, a dict carrying exactly one
\* of "dependencies" and "children", or a list of node values, which it reads
\* as a composite without metadata; a dict carrying both keys or neither, at
\* any node, makes it fail and no spec is returned.
ShapeAmended ==
  result.op = "from_dict" =>
    LET d == result.other.v[1]
        t == result.val[1]
    IN /\ SomeNodeCarriesBothOrNeither(d) => (result.err # "" /\ t.kind = "error")
       /\ (d.type = "list" /\ result.err = "") =>
             (t.kind = "nested" /\ t.meta = {} /\ Len(t.children) = Len(d.children))
       /\ result.err = "" =>
             \/ d.type = "list"
             \/ d.type = "dict" /\ Cardinality(Discriminants(d)) = 1

\* C9 witness: a dict whose child carries both keys was rejected
RejectedNestedAmbiguity ==
  /\ result.op = "from_dict"
  /\ result.err = "ValueError"
  /\ LET d == result.other.v[1]
     IN /\ d.type = "dict"
        /\ Discriminants(d) = {"children"}
        /\ \E i \in DOMAIN d.children :
             Discriminants(d.children[i]) = {"dependencies", "children"}

\* the files of the directory that do not exist
Absent == {f \in Range(FileNames) : disk[f] = <<>>}

\* the directory holds a model file and the spec and extras files that save
\* writes for the container the caller holds
SavedIntact ==
  /\ container # <<>>
  /\ disk[MODEL_FILENAME] # <<>>
  /\ \A f \in {X_SPEC_FILENAME, Y_SPEC_FILENAME, EXTRAS_FILENAME} :
       disk[f] = SavedFiles(container[1], disk)[f]

\* the dependency list of a spec the container holds
SpecDependencies(spec) == Dependencies(spec[1].h, spec[1].n)

\* C5: load after save returns a container whose X spec and y spec have the
\* dependency lists of the saved ones and whose eval_metrics is the saved
\* mapping.
SaveLoadRoundTrip ==
  (result.op = "load" /\ SavedIntact) =>
    LET r == result.val[1]
    IN /\ r.err = ""
       /\ r.container # <<>>
       /\ r.container[1].X_spec # <<>>
       /\ r.container[1].y_spec # <<>>
       /\ SpecDependencies(r.container[1].X_spec) = SpecDependencies(container[1].X_spec)
       /\ SpecDependencies(r.container[1].y_spec) = SpecDependencies(container[1].y_spec)
       /\ r.container[1].eval_metrics = container[1].eval_metrics

LoadNeverReturnsNone ==
  (result.op = "model_io.load" /\ disk[MODEL_FILENAME] # <<>>) =>
    (result.val # <<>> \/ result.err # "")

====
